---- MODULE Spec2Model ----
(***************************************************************************)
(* A model of plaud-mcp: the Plaud client (src/plaud_mcp/plaud_client.py)  *)
(* and the MCP tool layer (src/plaud_mcp/server.py).                       *)
(*                                                                         *)
(* Strings are sequences of one-character strings.  Python dictionaries    *)
(* are records; a key that is absent from a dictionary is a field that is  *)
(* absent from the record.  Python's None is the value None.               *)
(***************************************************************************)
EXTENDS Integers, Sequences, FiniteSets, TLC

VARIABLES
    access_token,   \* PlaudClient._access_token: a token, or None
    token_data,     \* PlaudClient._token_data: the decoded payload, or NoneRec
    storage,        \* what Plaud Desktop's LevelDB storage holds: a token
                    \* and its exp, or NoneRec when no token can be extracted
    now,            \* time.time(), in ticks (TicksPerMs ticks to a millisecond)
    op,             \* the operation in progress, or "idle"
    pc,             \* its position: "idle", "awaiting" (a request is in
                    \* flight), "done" (its outcome has been observed)
    attempts,       \* the HTTP requests the operation in progress has sent
    storage_reads,  \* the reads of the token storage it has made
    resp,           \* the response its last request received
    outcome,        \* what the operation returned or raised
    file_id,        \* the file_id argument of get_transcript / get_summary
    detail,         \* what get_file_detail returned to it, or NoneRec
    requests,       \* the HTTP requests it has sent, in order
    files,          \* search_transcripts: what get_recent_files returned;
                    \* get_recent_files: what get_files returned
    idx,            \* the number of files its loop has finished with
    fetched,        \* what client.get_transcript returned or raised for each
                    \* of them (NoOutcome when the loop never called it)
    results,        \* its list of results
    inflight,       \* the get_transcript calls it is awaiting
    query,      \* the query argument of search_transcripts / _extract_excerpt
    text,       \* the text argument of _extract_excerpt
    excerpt,    \* the value _extract_excerpt returned, or NotCalled
    days,       \* the days argument of get_recent_files
    cutoff_ms   \* its local cutoff_ms

clientVars == <<access_token, token_data, storage, now>>
callVars == <<op, pc, attempts, storage_reads, resp, outcome>>
contentVars == <<file_id, detail, requests>>
searchVars == <<files, idx, fetched, results, inflight>>
excerptVars == <<query, text, excerpt>>
recentVars == <<days, cutoff_ms>>
vars == <<clientVars, callVars, contentVars, searchVars, excerptVars, recentVars>>

None == "None"
NoneRec == [none |-> TRUE]
NotCalled == "NotCalled"

Max(a, b) == IF a >= b THEN a ELSE b
Min(a, b) == IF a <= b THEN a ELSE b

(***************************************************************************)
(* Strings                                                                 *)
(***************************************************************************)

\* n copies of the character c
Fill(n, c) == [i \in 1..n |-> c]

\* Python's s[a:b] for 0 <= a, 0 <= b: both ends are clamped to the string.
Slice(s, a, b) ==
    LET lo == Min(Max(a, 0), Len(s))
        hi == Min(Max(b, 0), Len(s))
    IN  IF lo >= hi THEN <<>> ELSE SubSeq(s, lo + 1, hi)

\* str.lower() of one character.  "Idot" stands for U+0130 (capital I with
\* dot above), whose lowercase form in Python is the two code points
\* U+0069 U+0307, written here "i" and "dot".
LowerChar(c) ==
    CASE c = "W" -> <<"w">>
      [] c = "O" -> <<"o">>
      [] c = "A" -> <<"a">>
      [] c = "B" -> <<"b">>
      [] c = "Idot" -> <<"i", "dot">>
      [] OTHER -> <<c>>

\* str.lower(): every character replaced by its lowercase form.
RECURSIVE lower(_)
lower(s) ==
    IF Len(s) = 0 THEN <<>>
    ELSE IF Len(s) = 1 THEN LowerChar(s[1])
    ELSE LET h == Len(s) \div 2
         IN  lower(SubSeq(s, 1, h)) \o lower(SubSeq(s, h + 1, Len(s)))

\* whether needle occurs in hay at the 0-based index i
OccursAt(hay, needle, i) ==
    /\ i >= 0
    /\ i + Len(needle) <= Len(hay)
    /\ \A k \in 1..Len(needle) : hay[i + k] = needle[k]

\* str.find(): the least 0-based index at which needle occurs, or -1.
find(hay, needle) ==
    LET hits == {i \in 0..(Len(hay) - Len(needle)) : OccursAt(hay, needle, i)}
    IN  IF hits = {} THEN -1
        ELSE CHOOSE i \in hits : \A j \in hits : i <= j

\* Python's "needle in hay"
Contains(hay, needle) == find(hay, needle) # -1

(***************************************************************************)
(* JSON values: a dictionary is [type |-> "dict", fields |-> a record], a   *)
(* list is [type |-> "list", items |-> a sequence].                        *)
(***************************************************************************)

Dict(fields) == [type |-> "dict", fields |-> fields]
List(items) == [type |-> "list", items |-> items]
IsDict(v) == v.type = "dict"
IsList(v) == v.type = "list"
HasKey(d, k) == k \in DOMAIN d.fields
\* dict.get(k, default)
Get(d, k, default) == IF HasKey(d, k) THEN d.fields[k] ELSE default

(***************************************************************************)
(* Outcomes of a call: a returned value or a raised exception.             *)
(***************************************************************************)

NoOutcome == [kind |-> "none"]
Return(v) == [kind |-> "return", value |-> v]
Raise(exc) == [kind |-> "raise", exc |-> exc]
\* plaud_client.py: PlaudAPIError(status_code, message)
PlaudAPIError(status_code, message) ==
    [kind |-> "raise", exc |-> "PlaudAPIError",
     status_code |-> status_code, message |-> message]
IsReturn(o) == o.kind = "return"
IsRaise(o) == o.kind = "raise"
IsPlaudAPIError(o) == IsRaise(o) /\ o.exc = "PlaudAPIError"
\* Messages are sequences of pieces of text.
\* str(e) of a PlaudAPIError: f"Plaud API Error ({status_code}): {message}"
StrOfError(o) == <<"Plaud API Error (", o.status_code, "): ">> \o o.message

(***************************************************************************)
(* plaud_client.py: the token                                              *)
(***************************************************************************)

TicksPerMs == 2
TicksPerSecond == 1000 * TicksPerMs

MaxTime == 3
Tokens == {"t1", "t2"}
Exps == 1..MaxTime
Storages == {NoneRec} \cup [token : Tokens, exp : Exps]

\* _extract_token_from_leveldb: the token found in the storage, or None; as a
\* side effect _token_data becomes the payload of the token found.
ExtractedToken(st) == IF st = NoneRec THEN None ELSE st.token
TokenDataAfterExtract(td, st) == IF st = NoneRec THEN td ELSE [exp |-> st.exp]

\* the test of lines 160-164 without the comparison of exp with the clock
CachedTokenUnchecked(tok, td, t) ==
    /\ tok # None
    /\ td # NoneRec
    /\ "exp" \in DOMAIN td

\* whether _ensure_authenticated returns on its cached token
CachedTokenValid(tok, td, t) ==
    /\ tok # None
    /\ td # NoneRec
    /\ "exp" \in DOMAIN td
    /\ t < td.exp * TicksPerSecond

\* _ensure_authenticated: ok is FALSE when it raises PlaudAPIError(401, ...);
\* token and data are the fields of the client afterwards, reads the number
\* of reads of the token storage.
_ensure_authenticated(tok, td, st, t) ==
    IF CachedTokenValid(tok, td, t)
    THEN [ok |-> TRUE, token |-> tok, data |-> td, reads |-> 0]
    ELSE LET token == ExtractedToken(st)
             data == TokenDataAfterExtract(td, st)
         IN  IF token = None
             THEN [ok |-> FALSE, token |-> tok, data |-> data, reads |-> 1]
             ELSE [ok |-> TRUE, token |-> token, data |-> data, reads |-> 1]

NoTokenError == PlaudAPIError(401, <<"No Plaud Desktop token found">>)

(***************************************************************************)
(* plaud_client.py: _request                                               *)
(***************************************************************************)

NoResponse == [kind |-> "none"]
NotJson == [type |-> "not json"]

\* the decoded payloads of the file listing endpoint
Payloads ==
    { Dict([data_file_total |-> 3, data_file_list |-> <<>>]),
      Dict([data_file_list |-> <<>>]),
      Dict([error |-> <<"not logged in">>]),
      Dict([error |-> <<"unauthorized">>, status |-> 401]),
      List(<<>>) }

Bodies == {NotJson} \cup Payloads

\* what the network answers to one request: a 2xx response with a body, a
\* 4xx/5xx response with a (possibly empty) text, or no response at all (a
\* connection error, or the 30 s timeout running out)
Responses ==
    [kind : {"ok"}, body : Bodies]
    \cup [kind : {"status"}, status_code : {401, 500}, text : {"", "denied"}]
    \cup [kind : {"connect_error", "timeout"}]

IsTransportFailure(r) == r.kind \in {"connect_error", "timeout"}

\* lines 207-214: raise_for_status, response.json(), and the two handlers
RequestResult(r) ==
    CASE r.kind = "status" ->
            PlaudAPIError(r.status_code,
                          IF r.text # "" THEN <<r.text>> ELSE <<"HTTPStatusError">>)
      [] IsTransportFailure(r) ->
            PlaudAPIError(0, <<"Request failed: ", r.kind>>)
      [] r.kind = "ok" /\ r.body = NotJson ->
            Raise("JSONDecodeError")
      [] OTHER ->
            Return(r.body)

\* get_file_count, after _request: response.get("data_file_total", 0)
FileCountResult(o) ==
    IF ~IsReturn(o) THEN o
    ELSE IF ~IsDict(o.value) THEN Raise("AttributeError")
    ELSE Return(Get(o.value, "data_file_total", 0))

\* check_connection, after client.get_file_count(): lines 248-263
CheckConnectionResult(o) ==
    IF IsReturn(o)
    THEN Return([status |-> "connected", total_files |-> o.value])
    ELSE IF IsPlaudAPIError(o)
    THEN Return([status |-> "error", message |-> StrOfError(o)])
    ELSE o

Unavailable == Return([status |-> "unavailable"])

\* what the operation in progress makes of the outcome of its _request
OpResult(name, o) ==
    CASE name = "get_file_count" -> FileCountResult(o)
      [] name = "check_connection" -> CheckConnectionResult(FileCountResult(o))
      [] OTHER -> o

ClientIdle ==
    /\ access_token = None
    /\ token_data = NoneRec
    /\ storage = NoneRec
    /\ now = 0

CallIdle ==
    /\ op = "idle"
    /\ pc = "idle"
    /\ attempts = 0
    /\ storage_reads = 0
    /\ resp = NoResponse
    /\ outcome = NoOutcome

ContentIdle ==
    /\ file_id = None
    /\ detail = NoneRec
    /\ requests = <<>>

SearchIdle ==
    /\ files = <<>>
    /\ idx = 0
    /\ fetched = <<>>
    /\ results = <<>>
    /\ inflight = 0

ExcerptIdle ==
    /\ query = <<>>
    /\ text = <<>>
    /\ excerpt = NotCalled

RecentIdle ==
    /\ days = 0
    /\ cutoff_ms = 0

\* PlaudClient.__init__, and any state of the token storage
ClientInit ==
    /\ access_token = None
    /\ token_data = NoneRec
    /\ storage \in Storages
    /\ now = 0

\* is_available(): never awaits
IsAvailable ==
    /\ pc = "idle"
    /\ LET a == _ensure_authenticated(access_token, token_data, storage, now)
       IN  /\ access_token' = a.token
           /\ token_data' = a.data
           /\ storage_reads' = a.reads
           /\ outcome' = Return(a.ok)
    /\ op' = "is_available"
    /\ pc' = "done"
    /\ attempts' = 0
    /\ resp' = NoResponse
    /\ UNCHANGED <<storage, now>>
    /\ UNCHANGED <<contentVars, searchVars, excerptVars, recentVars>>

\* _request up to its await: _ensure_authenticated, then the request is sent
\* (get_file_count, called directly or by check_connection)
RequestOps == {"_request", "get_file_count"}

BeginRequest(name) ==
    /\ pc = "idle"
    /\ op' = name
    /\ resp' = NoResponse
    /\ LET a == _ensure_authenticated(access_token, token_data, storage, now)
       IN  /\ access_token' = a.token
           /\ token_data' = a.data
           /\ storage_reads' = a.reads
           /\ IF a.ok
              THEN /\ pc' = "awaiting"
                   /\ attempts' = 1
                   /\ outcome' = NoOutcome
              ELSE /\ pc' = "done"
                   /\ attempts' = 0
                   /\ outcome' = OpResult(name, NoTokenError)
    /\ UNCHANGED <<storage, now>>
    /\ UNCHANGED <<contentVars, searchVars, excerptVars, recentVars>>

\* check_connection up to its await: is_available(), then get_file_count()
BeginCheckConnection ==
    /\ pc = "idle"
    /\ op' = "check_connection"
    /\ resp' = NoResponse
    /\ LET a == _ensure_authenticated(access_token, token_data, storage, now)
           b == _ensure_authenticated(a.token, a.data, storage, now)
       IN  IF ~a.ok
           THEN /\ access_token' = a.token
                /\ token_data' = a.data
                /\ storage_reads' = a.reads
                /\ pc' = "done"
                /\ attempts' = 0
                /\ outcome' = Unavailable
           ELSE /\ access_token' = b.token
                /\ token_data' = b.data
                /\ storage_reads' = a.reads + b.reads
                /\ IF b.ok
                   THEN /\ pc' = "awaiting"
                        /\ attempts' = 1
                        /\ outcome' = NoOutcome
                   ELSE /\ pc' = "done"
                        /\ attempts' = 0
                        /\ outcome' = OpResult("check_connection", NoTokenError)
    /\ UNCHANGED <<storage, now>>
    /\ UNCHANGED <<contentVars, searchVars, excerptVars, recentVars>>

\* the response (or the transport failure) arrives: lines 207-214, and the
\* caller's handling of what _request returned or raised
ReceiveResponse(r) ==
    /\ pc = "awaiting"
    /\ resp' = r
    /\ pc' = "done"
    /\ outcome' = OpResult(op, RequestResult(r))
    /\ UNCHANGED <<op, attempts, storage_reads, clientVars>>
    /\ UNCHANGED <<contentVars, searchVars, excerptVars, recentVars>>

\* the caller has observed the outcome; the client is ready for the next call
Finish ==
    /\ pc = "done"
    /\ op' = "idle"
    /\ pc' = "idle"
    /\ attempts' = 0
    /\ storage_reads' = 0
    /\ resp' = NoResponse
    /\ outcome' = NoOutcome
    /\ UNCHANGED clientVars
    /\ UNCHANGED <<contentVars, searchVars, excerptVars, recentVars>>

\* time passes, one second at a time ("done" is the instant at which the
\* caller observes the outcome)
Tick ==
    /\ pc # "done"
    /\ now < MaxTime * TicksPerSecond
    /\ now' = now + TicksPerSecond
    /\ UNCHANGED <<access_token, token_data, storage, callVars>>
    /\ UNCHANGED <<contentVars, searchVars, excerptVars, recentVars>>

\* the user signs in to, or out of, Plaud Desktop
StorageChange(st) ==
    /\ pc # "done"
    /\ st # storage
    /\ storage' = st
    /\ UNCHANGED <<access_token, token_data, now, callVars>>
    /\ UNCHANGED <<contentVars, searchVars, excerptVars, recentVars>>

InitClient ==
    /\ ClientInit
    /\ CallIdle
    /\ ContentIdle
    /\ SearchIdle
    /\ ExcerptIdle
    /\ RecentIdle

NextClient ==
    \/ IsAvailable
    \/ \E name \in RequestOps : BeginRequest(name)
    \/ BeginCheckConnection
    \/ \E r \in Responses : ReceiveResponse(r)
    \/ Finish
    \/ Tick
    \/ \E st \in Storages : StorageChange(st)

SpecClient == InitClient /\ [][NextClient]_vars

(***************************************************************************)
(* C2, C3, C5, C6: the request layer, checked under SpecClient             *)
(***************************************************************************)

\* no token can be obtained: the cached token is not valid and the storage
\* holds none
NoTokenObtainable ==
    /\ ~CachedTokenValid(access_token, token_data, now)
    /\ storage = NoneRec

\* C2 (stated as the claim states it; the code violates it): is_available and
\* check_connection never raise, whatever the token storage holds and whatever
\* the request's outcome (an HTTP error status, a network failure, a timeout, a
\* body that is not valid JSON): they return a status value, and when no token
\* can be obtained is_available returns False and check_connection returns the
\* status "unavailable".
C2_AvailabilityNeverRaises ==
    (pc = "done" /\ op \in {"is_available", "check_connection"}) =>
        /\ IsReturn(outcome)
        /\ (attempts = 0 /\ NoTokenObtainable) =>
              IF op = "is_available"
              THEN outcome = Return(FALSE)
              ELSE outcome = Unavailable

\* C3 (stated as the claim states it; the code violates it): a call that hits a
\* transport failure (connection error or timeout) is retried exactly once: it
\* surfaces the failure to its caller only after the second consecutive
\* transport failure, never after the first and never after a third attempt.
C3_RetriedExactlyOnce ==
    /\ attempts <= 2
    /\ (pc = "done" /\ IsTransportFailure(resp)) => attempts = 2

\* C5 (stated as the claim states it; the code violates it): for every decoded
\* response payload of _request: a payload with an `error` field raises
\* PlaudAPIError carrying the payload's status (0 when absent) and message; a
\* payload without one is returned unchanged.
C5_ErrorPayloadRaises ==
    (pc = "done" /\ op = "_request" /\ resp.kind = "ok" /\ resp.body # NotJson) =>
        IF IsDict(resp.body) /\ HasKey(resp.body, "error")
        THEN outcome = PlaudAPIError(Get(resp.body, "status", 0),
                                     Get(resp.body, "error", <<>>))
        ELSE outcome = Return(resp.body)

\* C6 (stated as the claim states it; the code violates it): every request has
\* exactly one observed outcome: none while it is in flight, and once it is
\* resolved either a decoded value or one classified error (PlaudAPIError, for
\* a remote error or a transport error); no other kind of exception escapes
\* the request layer.
C6_ExactlyOneClassifiedOutcome ==
    /\ pc = "awaiting" => outcome = NoOutcome
    /\ (pc = "done" /\ op = "_request") =>
          \/ IsReturn(outcome)
          \/ IsPlaudAPIError(outcome)

(***************************************************************************)
(* C13, C14: the token, checked under SpecClient                           *)
(***************************************************************************)

\* the operations that call _ensure_authenticated once
AuthenticatingOps == {"is_available"} \cup RequestOps

\* C13 (stated as the claim states it; the code violates it): whenever
\* is_available returns True, and whenever _ensure_authenticated returns
\* normally so that _request sends its request, the stored access token is
\* non-empty and its expiry time exp is later than the current time.
C13_AvailableOnlyWithUnexpiredToken ==
    [][(/\ pc = "idle"
        /\ \/ op' = "is_available" /\ outcome' = Return(TRUE)
           \/ pc' = "awaiting")
       => /\ access_token' # None
          /\ token_data' # NoneRec
          /\ now' < token_data'.exp * TicksPerSecond]_vars

\* C14: the token cache discipline of _ensure_authenticated.  While a cached
\* access token exists and its recorded exp is in the future, the call returns
\* normally without reading the token storage and leaves the token and the
\* token data unchanged; otherwise the storage is read exactly once, and if no
\* token is found the call raises PlaudAPIError with status 401 (is_available
\* turns it into False) and leaves the stored token and token data unchanged.
C14_TokenCacheDiscipline ==
    [][(pc = "idle" /\ op' \in AuthenticatingOps)
       => IF /\ access_token # None
             /\ token_data # NoneRec
             /\ now < token_data.exp * TicksPerSecond
          THEN /\ storage_reads' = 0
               /\ access_token' = access_token
               /\ token_data' = token_data
               /\ IF op' = "is_available"
                  THEN outcome' = Return(TRUE)
                  ELSE pc' = "awaiting"
          ELSE /\ storage_reads' = 1
               /\ storage = NoneRec =>
                     /\ access_token' = access_token
                     /\ token_data' = token_data
                     /\ pc' = "done"
                     /\ attempts' = 0
                     /\ IF op' = "is_available"
                        THEN outcome' = Return(FALSE)
                        ELSE /\ IsPlaudAPIError(outcome')
                             /\ outcome'.status_code = 401]_vars

\* C14's case happens: the cached token has expired and the storage holds no
\* token any more; _request read the storage once, raised the 401 error and
\* the client still holds the expired token and its data
C14_Witness ==
    /\ op = "_request"
    /\ pc = "done"
    /\ outcome = NoTokenError
    /\ storage = NoneRec
    /\ storage_reads = 1
    /\ access_token # None
    /\ token_data # NoneRec
    /\ now >= token_data.exp * TicksPerSecond

(***************************************************************************)
(* plaud_client.py: get_file_detail, _fetch_content, get_transcript,       *)
(* get_summary; server.py: get_transcript, get_summary                     *)
(***************************************************************************)

MaxRefs == 2
FileIds == {"f1", "f2"}
DataTypes == {"transaction", "auto_sum_note", "outline"}
Urls == {"u1", "u2"}

\* the entries of a detail record's content_list: a data_type, and a
\* data_link unless the entry carries none
ContentRefs ==
    {Dict([data_type |-> k, data_link |-> u]) : k \in DataTypes, u \in Urls}
    \cup {Dict([data_type |-> k]) : k \in DataTypes}

ContentLists == UNION {[1..n -> ContentRefs] : n \in 0..MaxRefs}

\* the decoded payloads of file/detail/{file_id}
DetailPayloads ==
    {Dict([data |-> Dict([content_list |-> List(l)])]) : l \in ContentLists}
    \cup {Dict([data |-> Dict([id |-> "f1"])]), Dict([status |-> 0]), List(<<>>)}

DetailResponses ==
    [kind : {"ok"}, body : {NotJson} \cup DetailPayloads]
    \cup [kind : {"status"}, status_code : {401}, text : {"denied"}]
    \cup [kind : {"connect_error", "timeout"}]

\* get_file_detail, after _request: response.get("data", {})
DetailResult(o) ==
    IF ~IsReturn(o) THEN o
    ELSE IF ~IsDict(o.value) THEN Raise("AttributeError")
    ELSE Return(Get(o.value, "data", Dict(<<>>)))

ContentOps ==
    {"client.get_transcript", "client.get_summary",
     "server.get_transcript", "server.get_summary"}

IsTranscriptOp(name) == name \in {"client.get_transcript", "server.get_transcript"}
IsServerOp(name) == name \in {"server.get_transcript", "server.get_summary"}

\* the data_type get_transcript / get_summary looks for
KindOf(name) == IF IsTranscriptOp(name) THEN "transaction" ELSE "auto_sum_note"

\* the indices of the entries of the content list whose data_type is kind
KindRefs(d, kind) ==
    LET content_list == Get(d, "content_list", List(<<>>)).items
    IN  {i \in 1..Len(content_list) :
            Get(content_list[i], "data_type", None) = kind}

\* a URL kept from an earlier call, used in place of the one in the detail
ContentUrlOfEarlierCall(d, kind) == "u1"

\* the loop without its `break`: the data_link of the last entry whose
\* data_type is kind
ContentUrlOfLastRef(d, kind) ==
    LET content_list == Get(d, "content_list", List(<<>>)).items
        found == KindRefs(d, kind)
    IN  IF found = {} THEN None
        ELSE LET last == CHOOSE i \in found : \A j \in found : j <= i
             IN  Get(content_list[last], "data_link", None)

\* the loop of get_transcript / get_summary: the data_link of the first entry
\* whose data_type is kind (None when it has none), or None
ContentUrl(d, kind) ==
    LET content_list == Get(d, "content_list", List(<<>>)).items
        found == KindRefs(d, kind)
    IN  IF found = {} THEN None
        ELSE LET first == CHOOSE i \in found : \A j \in found : i <= j
             IN  Get(content_list[first], "data_link", None)

\* {"error": "No transcript available", "file_id": file_id}
NoContent(name, fid) ==
    Dict([error |-> IF IsTranscriptOp(name) THEN <<"No transcript available">>
                    ELSE <<"No summary available">>,
          file_id |-> fid])

\* the decoded contents behind a signed URL
Segment1 == Dict([speaker |-> "Speaker 1", content |-> "hello"])
Segment2 == Dict([content |-> "world"])
ContentPayloads ==
    { List(<<Segment1, Segment2>>),
      List(<<>>),
      Dict([ai_content |-> "text", header |-> "h", category |-> "c"]),
      Dict([error |-> <<"expired">>]) }

\* what the host of a signed URL answers: a 2xx response whose bytes are JSON
\* text, plain or gzip-compressed (or bytes behind the gzip magic that do not
\* decompress), a 4xx/5xx response, or no response at all
ContentResponses ==
    [kind : {"ok"}, encoding : {"plain", "gzip", "bad gzip"},
     body : {NotJson} \cup ContentPayloads]
    \cup [kind : {"status"}, status_code : {403}]
    \cup [kind : {"connect_error", "timeout"}]

\* _fetch_content: raise_for_status, gzip.decompress behind the magic bytes,
\* json.loads
FetchResult(c) ==
    CASE c.kind = "status" -> Raise("HTTPStatusError")
      [] IsTransportFailure(c) -> Raise("RequestError")
      [] c.kind = "ok" /\ c.encoding = "bad gzip" -> Raise("BadGzipFile")
      [] c.kind = "ok" /\ c.body = NotJson -> Raise("JSONDecodeError")
      [] OTHER -> Return(c.body)

\* the lines of the transcript server.get_transcript builds from the segments
TranscriptLines(segs) ==
    LET line(seg) ==
            IF Get(seg, "speaker", "") # ""
            THEN <<"**", Get(seg, "speaker", ""), ":** ", Get(seg, "content", "")>>
            ELSE <<Get(seg, "content", "")>>
        HasContent(seg) == Get(seg, "content", "") # ""
        kept == SelectSeq(segs, HasContent)
    IN  [i \in 1..Len(kept) |-> line(kept[i])]

\* server.get_transcript (lines 110-138) and server.get_summary (lines
\* 152-166), applied to what the client's method returned or raised
ServerResult(name, fid, o) ==
    IF IsPlaudAPIError(o)
    THEN Return(Dict([file_id |-> fid, error |-> StrOfError(o)]))
    ELSE IF IsRaise(o) THEN o
    ELSE LET data == o.value
         IN  IF IsDict(data) /\ HasKey(data, "error")
             THEN Return(Dict([file_id |-> fid, error |-> data.fields.error]))
             ELSE IF name = "server.get_transcript"
             THEN IF IsList(data)
                  THEN Return(Dict([file_id |-> fid,
                                    transcript |-> TranscriptLines(data.items),
                                    segment_count |-> Len(data.items),
                                    segments |-> Slice(data.items, 0, 10)]))
                  ELSE Return(Dict([file_id |-> fid, transcript |-> data]))
             ELSE IF IsList(data) THEN Raise("AttributeError")
             ELSE Return(Dict([file_id |-> fid,
                               content |-> Get(data, "ai_content", ""),
                               header |-> Get(data, "header", ""),
                               category |-> Get(data, "category", "")]))

\* what the operation name makes of the outcome o of the client's method
ContentResult(name, fid, o) ==
    IF IsServerOp(name) THEN ServerResult(name, fid, o) ELSE o

DetailRequest(fid) == [to |-> "file/detail", file_id |-> fid]
FetchRequest(url) == [to |-> "signed url", url |-> url]

\* get_transcript / get_summary up to the first await: _ensure_authenticated
\* (in _request), then the detail request is sent
BeginContent(name, fid) ==
    /\ pc = "idle"
    /\ op' = name
    /\ file_id' = fid
    /\ detail' = NoneRec
    /\ resp' = NoResponse
    /\ LET a == _ensure_authenticated(access_token, token_data, storage, now)
       IN  /\ access_token' = a.token
           /\ token_data' = a.data
           /\ storage_reads' = a.reads
           /\ IF a.ok
              THEN /\ pc' = "awaiting"
                   /\ attempts' = 1
                   /\ requests' = <<DetailRequest(fid)>>
                   /\ outcome' = NoOutcome
              ELSE /\ pc' = "done"
                   /\ attempts' = 0
                   /\ requests' = <<>>
                   /\ outcome' = ContentResult(name, fid, NoTokenError)
    /\ UNCHANGED <<storage, now, searchVars, excerptVars, recentVars>>

\* the detail response arrives: get_file_detail returns or raises; the content
\* list is searched; the signed URL, if one is found, is requested
ReceiveDetail(r) ==
    /\ pc = "awaiting"
    /\ op \in ContentOps
    /\ resp' = r
    /\ LET d == DetailResult(RequestResult(r))
       IN  IF ~IsReturn(d)
           THEN /\ pc' = "done"
                /\ outcome' = ContentResult(op, file_id, d)
                /\ UNCHANGED <<detail, requests, attempts>>
           ELSE /\ detail' = d.value
                /\ LET url == ContentUrl(d.value, KindOf(op))
                   IN  IF url = None
                       THEN /\ pc' = "done"
                            /\ outcome' = ContentResult(op, file_id,
                                              Return(NoContent(op, file_id)))
                            /\ UNCHANGED <<requests, attempts>>
                       ELSE /\ pc' = "fetching"
                            /\ requests' = Append(requests, FetchRequest(url))
                            /\ attempts' = attempts + 1
                            /\ UNCHANGED outcome
    /\ UNCHANGED <<op, file_id, storage_reads, clientVars, searchVars, excerptVars, recentVars>>

\* the answer of the signed URL's host arrives: _fetch_content returns or
\* raises
ReceiveContent(c) ==
    /\ pc = "fetching"
    /\ resp' = c
    /\ pc' = "done"
    /\ outcome' = ContentResult(op, file_id, FetchResult(c))
    /\ UNCHANGED <<op, attempts, storage_reads, contentVars, clientVars, searchVars,
                   excerptVars, recentVars>>

\* the caller has observed the outcome
FinishContent ==
    /\ pc = "done"
    /\ op' = "idle"
    /\ pc' = "idle"
    /\ attempts' = 0
    /\ storage_reads' = 0
    /\ resp' = NoResponse
    /\ outcome' = NoOutcome
    /\ file_id' = None
    /\ detail' = NoneRec
    /\ requests' = <<>>
    /\ UNCHANGED <<clientVars, searchVars, excerptVars, recentVars>>

ContentStorages == {NoneRec, [token |-> "t1", exp |-> MaxTime]}

InitContent ==
    /\ access_token = None
    /\ token_data = NoneRec
    /\ storage \in ContentStorages
    /\ now = 0
    /\ CallIdle
    /\ ContentIdle
    /\ SearchIdle
    /\ ExcerptIdle
    /\ RecentIdle

NextContent ==
    \/ \E name \in ContentOps, fid \in FileIds : BeginContent(name, fid)
    \/ \E r \in DetailResponses : ReceiveDetail(r)
    \/ \E c \in ContentResponses : ReceiveContent(c)
    \/ FinishContent

SpecContent == InitContent /\ [][NextContent]_vars

(***************************************************************************)
(* C4, checked under SpecContent                                           *)
(***************************************************************************)

\* the not-found outcome for the kind of the operation name and the file fid
NotFound(name, fid) ==
    Return(Dict([file_id |-> fid,
                 error |-> IF KindOf(name) = "transaction"
                           THEN <<"No transcript available">>
                           ELSE <<"No summary available">>]))

\* every outcome the operation name produces for the file fid on a missing
\* token, an HTTP error status or a transport failure
FailureOutcomes(name, fid) ==
    {ContentResult(name, fid, o) :
        o \in {NoTokenError}
              \cup {DetailResult(RequestResult(r)) :
                        r \in {x \in DetailResponses : x.kind # "ok"}}
              \cup {FetchResult(c) :
                        c \in {x \in ContentResponses : x.kind # "ok"}}}

ContentListOf(d) == Get(d, "content_list", List(<<>>)).items

FirstKindRef(d, kind) ==
    ContentListOf(d)[CHOOSE i \in KindRefs(d, kind) :
                        \A j \in KindRefs(d, kind) : i <= j]

\* the operation has its detail record
HasDetail == op \in ContentOps /\ pc \in {"fetching", "done"} /\ detail # NoneRec

IsNotFoundOutcome ==
    /\ pc = "done"
    /\ outcome = NotFound(op, file_id)
    /\ outcome \notin FailureOutcomes(op, file_id)
    /\ requests = <<DetailRequest(file_id)>>

\* C4 as stated (violated by the code): when the detail record has no content
\* reference of the requested kind, the operation ends with the not-found
\* outcome naming the kind and the file id, which differs from every transport
\* or authorization failure outcome; when a reference of the requested kind
\* exists, its URL is the one fetched.
C4_Original ==
    HasDetail =>
        IF KindRefs(detail, KindOf(op)) = {}
        THEN IsNotFoundOutcome
        ELSE /\ Len(requests) = 2
             /\ \E i \in KindRefs(detail, KindOf(op)) :
                    /\ HasKey(ContentListOf(detail)[i], "data_link")
                    /\ requests[2] = FetchRequest(ContentListOf(detail)[i].fields.data_link)

\* C4 (amended): when the detail record has no content reference of the
\* requested kind, or its first reference of that kind carries no URL, the
\* operation ends with the not-found outcome naming the kind and the file id,
\* without fetching anything, and that outcome differs from every outcome of a
\* missing token, an HTTP error status or a transport failure, at the client and
\* at the tool layer; when the first reference of the requested kind carries a
\* URL, that URL is the one fetched, after the detail request.
C4_NotFoundOrFirstUrlFetched ==
    HasDetail =>
        IF \/ KindRefs(detail, KindOf(op)) = {}
           \/ ~HasKey(FirstKindRef(detail, KindOf(op)), "data_link")
        THEN IsNotFoundOutcome
        ELSE requests =
                <<DetailRequest(file_id),
                  FetchRequest(FirstKindRef(detail, KindOf(op)).fields.data_link)>>

\* C4's case happens: the tool layer was asked for the summary of a file whose
\* first summary reference carries no URL and whose second one does; it
\* reported the summary as not found and fetched nothing
C4_Witness ==
    /\ op = "server.get_summary"
    /\ pc = "done"
    /\ detail # NoneRec
    /\ KindRefs(detail, "auto_sum_note") = {1, 2}
    /\ ~HasKey(ContentListOf(detail)[1], "data_link")
    /\ HasKey(ContentListOf(detail)[2], "data_link")
    /\ outcome = NotFound(op, file_id)
    /\ requests = <<DetailRequest(file_id)>>

(***************************************************************************)
(* C12, checked under SpecContent                                          *)
(***************************************************************************)

\* the URLs the detail record d carries for the kind
KindUrls(d, kind) ==
    {ContentListOf(d)[i].fields.data_link :
        i \in {j \in KindRefs(d, kind) : HasKey(ContentListOf(d)[j], "data_link")}}

\* C12: signed URLs are never carried across calls.  Within a get_transcript
\* or get_summary call the requests sent are the file-detail request for the
\* file and then at most one content fetch; the URL fetched is one the detail
\* response of this very call carries for the requested kind; and between
\* calls no detail record, URL or content is held: what the client keeps is
\* its access token and its token data.
C12_UrlFromThisCallsDetail ==
    /\ Len(requests) <= 2
    /\ Len(requests) >= 1 =>
          /\ op \in ContentOps
          /\ requests[1] = DetailRequest(file_id)
    /\ Len(requests) = 2 =>
          /\ detail # NoneRec
          /\ requests[2].to = "signed url"
          /\ requests[2].url \in KindUrls(detail, KindOf(op))
    /\ pc = "fetching" =>
          /\ Len(requests) = 2
          /\ Return(detail) = DetailResult(RequestResult(resp))
    /\ pc = "idle" =>
          /\ file_id = None
          /\ detail = NoneRec
          /\ requests = <<>>
          /\ resp = NoResponse
          /\ outcome = NoOutcome

\* C12's case happens: a later call on the same client (its token is cached:
\* the storage was not read) has its own detail response, which carries the
\* URL u2 alone for the requested kind, and fetches u2
C12_Witness ==
    /\ op \in ContentOps
    /\ pc = "fetching"
    /\ access_token # None
    /\ storage_reads = 0
    /\ detail # NoneRec
    /\ KindUrls(detail, KindOf(op)) = {"u2"}
    /\ requests = <<DetailRequest(file_id), FetchRequest("u2")>>

(***************************************************************************)
(* server.py: _extract_excerpt                                             *)
(***************************************************************************)

ContextChars == 200

Ellipsis == <<".", ".", ".">>

_extract_excerpt(t, q, context_chars) ==
    IF t = <<>> THEN <<>>
    ELSE
        LET query_lower == lower(q)
            text_lower == lower(t)
            pos == find(text_lower, query_lower)
        IN  IF pos = -1
            THEN IF Len(t) > context_chars * 2
                 THEN Slice(t, 0, context_chars * 2) \o Ellipsis
                 ELSE t
            ELSE
                LET start == Max(0, pos - context_chars)
                    end == Min(Len(t), pos + Len(q) + context_chars)
                    body == Slice(t, start, end)
                    lead == IF start > 0 THEN Ellipsis ELSE <<>>
                    trail == IF end < Len(t) THEN Ellipsis ELSE <<>>
                IN  lead \o body \o trail

(***************************************************************************)
(* server.py: _format_timestamp, _format_duration, search_transcripts      *)
(***************************************************************************)

\* dict.get(k) of a number: <<v>>, or <<>> for None
GetOpt(d, k) == IF HasKey(d, k) THEN <<d.fields[k]>> ELSE <<>>

\* _format_timestamp: "" for None or 0, else the ISO form of the local time
\* (kept as the pair of the format and the timestamp)
_format_timestamp(ts) == IF ts = <<>> \/ ts[1] = 0 THEN <<>> ELSE <<"iso", ts[1]>>

\* _format_duration: "" for None or 0, else "{h}h {m}m {s}s", "{m}m {s}s" or "{s}s"
_format_duration(ms) ==
    IF ms = <<>> \/ ms[1] = 0 THEN <<>>
    ELSE LET seconds == ms[1] \div 1000
             secs == seconds % 60
             minutes == (seconds \div 60) % 60
             hours == (seconds \div 60) \div 60
         IN  IF hours # 0 THEN <<hours, "h ", minutes, "m ", secs, "s">>
             ELSE IF minutes # 0 THEN <<minutes, "m ", secs, "s">>
             ELSE <<secs, "s">>

\* str.join: the parts with sep between them
RECURSIVE Join(_, _)
Join(parts, sep) ==
    IF Len(parts) = 0 THEN <<>>
    ELSE IF Len(parts) = 1 THEN parts[1]
    ELSE parts[1] \o sep \o Join(Tail(parts), sep)

\* whether a segment of a transcript is a dictionary (seg.get exists)
IsSegment(seg) == seg.type = "dict"

\* lines 200-204: the contents of the segments that have one, joined by "\n";
\* "" when data is not a list
TranscriptText(data) ==
    IF ~IsList(data) THEN <<>>
    ELSE LET HasContent(seg) == Get(seg, "content", <<>>) # <<>>
             kept == SelectSeq(data.items, HasContent)
         IN  Join([i \in 1..Len(kept) |-> Get(kept[i], "content", <<>>)], <<"\n">>)

\* whether lines 200-204 raise: seg.get on a segment that is no dictionary
TranscriptTextRaises(data) ==
    IsList(data) /\ \E i \in 1..Len(data.items) : ~IsSegment(data.items[i])

\* a handler `except PlaudAPIError` in place of `except Exception`
CatchesPlaudAPIErrorOnly(o) == IsPlaudAPIError(o)

\* whether the handler of the loop, `except Exception`, catches the exception
Catches(o) == IsRaise(o)

\* lines 193-194
TitleOf(file) == Get(file, "filename", <<>>)
\* the comparison of line 194 without its .lower()
TitleMatchCaseSensitive(file, q) == Contains(TitleOf(file), lower(q))

TitleMatch(file, q) == Contains(lower(TitleOf(file)), lower(q))

\* line 206
TranscriptMatch(data, q) == Contains(lower(TranscriptText(data)), lower(q))

\* line 208
IsMatch(file, data, q) == TitleMatch(file, q) \/ TranscriptMatch(data, q)

\* lines 211-219
ResultEntry(file, data, q) ==
    Dict([file_id |-> file.fields.id,
          title |-> TitleOf(file),
          date |-> _format_timestamp(GetOpt(file, "start_time")),
          duration |-> _format_duration(GetOpt(file, "duration")),
          excerpt |-> _extract_excerpt(TranscriptText(data), q, ContextChars)])

\* results.insert(0, ...) in place of results.append(...)
AddResultFirst(res, entry) == <<entry>> \o res

\* line 210: results.append({...})
AddResult(res, entry) == Append(res, entry)

\* one pass of the loop body after get_transcript returned or raised o: the
\* results afterwards, or the exception that leaves search_transcripts
AfterFile(res, file, o, q) ==
    IF IsRaise(o)
    THEN IF Catches(o) THEN Return(res) ELSE o
    ELSE IF TranscriptTextRaises(o.value)
    THEN IF Catches(Raise("AttributeError")) THEN Return(res)
         ELSE Raise("AttributeError")
    ELSE IF IsMatch(file, o.value, q)
    THEN Return(AddResult(res, ResultEntry(file, o.value, q)))
    ELSE Return(res)

MaxFiles == 2

FileIdAt(i) == <<"f", i>>

\* the metadata of the i-th listed file
FileMetas(i) ==
    { Dict([id |-> FileIdAt(i), filename |-> <<"A", "b">>,
            start_time |-> 1000, duration |-> 3723000]),
      Dict([id |-> FileIdAt(i), filename |-> <<"x">>, duration |-> 61000]),
      Dict([id |-> FileIdAt(i)]),
      Dict([filename |-> <<"A", "b">>]) }

FileLists ==
    UNION {{l \in [1..n -> UNION {FileMetas(i) : i \in 1..n}] :
                \A i \in 1..n : l[i] \in FileMetas(i)} : n \in 0..MaxFiles}

Seg(content) == Dict([content |-> content])

\* what client.get_transcript returns or raises for the file fid (for the
\* files after the first MaxFiles of a listing: it raises, or it returns one
\* transcript)
TranscriptOutcomes(fid) ==
    IF fid[2] <= MaxFiles
    THEN { NoTokenError,
           Raise("RequestError"),
           Return(NoContent("client.get_transcript", fid)),
           Return(List(<<Seg(<<"a">>), Dict([speaker |-> <<"s">>]), Seg(<<>>),
                         Seg(<<"b">>)>>)),
           Return(List(<<Seg(<<"A", "B">>)>>)),
           Return(List(<<Seg(<<"a">>), [type |-> "str"]>>)) }
    ELSE { Raise("RequestError"),
           Return(List(<<Seg(<<"A", "B">>)>>)) }

SearchQueries == {<<>>, <<"a", "b">>, <<"a", "\n", "B">>, <<"x">>}

\* what client.get_recent_files did: it returned the files, or it raised
ListingOutcomes == {Return(TRUE), PlaudAPIError(0, <<"Request failed: ", "timeout">>)}

\* search_transcripts up to the loop: get_recent_files returns or raises
BeginSearch(o) ==
    /\ pc = "idle"
    /\ op' = "search_transcripts"
    /\ idx' = 0
    /\ fetched' = <<>>
    /\ results' = <<>>
    /\ IF IsReturn(o)
       THEN /\ pc' = "searching"
            /\ outcome' = NoOutcome
       ELSE /\ pc' = "done"
            /\ outcome' = o
    /\ UNCHANGED <<files, inflight, attempts, storage_reads, resp>>
    /\ UNCHANGED <<clientVars, contentVars, excerptVars, recentVars>>

\* the loop turns to the next file: file["id"] is evaluated and
\* client.get_transcript is called (a file without id raises KeyError, which
\* the handler of the loop catches)
StartFile ==
    /\ pc = "searching"
    /\ idx < Len(files)
    /\ IF HasKey(files[idx + 1], "id")
       THEN /\ pc' = "fetching"
            /\ inflight' = inflight + 1
            /\ UNCHANGED <<idx, fetched, results, outcome>>
       ELSE LET after == AfterFile(results, files[idx + 1], Raise("KeyError"), query)
            IN  /\ fetched' = Append(fetched, NoOutcome)
                /\ inflight' = inflight
                /\ IF IsReturn(after)
                   THEN /\ pc' = "searching"
                        /\ idx' = idx + 1
                        /\ results' = after.value
                        /\ UNCHANGED outcome
                   ELSE /\ pc' = "done"
                        /\ outcome' = after
                        /\ UNCHANGED <<idx, results>>
    /\ UNCHANGED <<op, files, attempts, storage_reads, resp>>
    /\ UNCHANGED <<clientVars, contentVars, excerptVars, recentVars>>

\* get_transcript started as a task that the loop never awaits: it stays in
\* flight
NeverAwaited(n) == n

\* line 197: `await` returns, the call to get_transcript is no longer in flight
Awaited(n) == n - 1

\* client.get_transcript returns or raises: the rest of the loop body
FinishFile ==
    /\ pc = "fetching"
    /\ op = "search_transcripts"
    /\ \E o \in TranscriptOutcomes(files[idx + 1].fields.id) :
        /\ inflight' = Awaited(inflight)
        /\ fetched' = Append(fetched, o)
        /\ LET after == AfterFile(results, files[idx + 1], o, query)
           IN  IF IsReturn(after)
               THEN /\ pc' = "searching"
                    /\ idx' = idx + 1
                    /\ results' = after.value
                    /\ UNCHANGED outcome
               ELSE /\ pc' = "done"
                    /\ outcome' = after
                    /\ UNCHANGED <<idx, results>>
    /\ UNCHANGED <<op, files, attempts, storage_reads, resp>>
    /\ UNCHANGED <<clientVars, contentVars, excerptVars, recentVars>>

\* line 225: the loop is over
ReturnResults ==
    /\ pc = "searching"
    /\ idx = Len(files)
    /\ pc' = "done"
    /\ outcome' = Return(results)
    /\ UNCHANGED <<op, attempts, storage_reads, resp>>
    /\ UNCHANGED <<clientVars, contentVars, searchVars, excerptVars, recentVars>>

InitSearch ==
    /\ ClientIdle
    /\ CallIdle
    /\ ContentIdle
    /\ files \in FileLists
    /\ idx = 0
    /\ fetched = <<>>
    /\ results = <<>>
    /\ inflight = 0
    /\ query \in SearchQueries
    /\ text = <<>>
    /\ excerpt = NotCalled
    /\ RecentIdle

NextSearch ==
    \/ \E o \in ListingOutcomes : BeginSearch(o)
    \/ StartFile
    \/ FinishFile
    \/ ReturnResults

SpecSearch == InitSearch /\ [][NextSearch]_vars

(***************************************************************************)
(* C1, C9, C10, checked under SpecSearch                                   *)
(***************************************************************************)

\* the processing of the i-th file failed: file["id"] raised, get_transcript
\* raised, or building the transcript text raised
ProcessingFailed(i) ==
    \/ ~IsReturn(fetched[i])
    \/ TranscriptTextRaises(fetched[i].value)

ResultIds == {results[k].fields.file_id : k \in 1..Len(results)}
ResultEntries == {results[k] : k \in 1..Len(results)}

\* C1: for every candidate list and every set of candidates whose processing
\* raises, the search is not aborted (it raises only when the listing itself
\* failed, before any candidate was processed); each failed file is absent
\* from the results, and each file that did not fail and matches the query is
\* present with the entry built from that file alone.
C1_FailuresIsolated ==
    op = "search_transcripts" =>
        /\ (pc = "done" /\ IsRaise(outcome)) => fetched = <<>>
        /\ \A i \in 1..idx :
              IF ProcessingFailed(i)
              THEN FileIdAt(i) \notin ResultIds
              ELSE IsMatch(files[i], fetched[i].value, query) =>
                      ResultEntry(files[i], fetched[i].value, query) \in ResultEntries

\* C1's case happens: the first file's fetch raised, the second file matched,
\* and the search returned the second file
C1_Witness ==
    /\ op = "search_transcripts"
    /\ pc = "done"
    /\ Len(fetched) = 2
    /\ IsRaise(fetched[1])
    /\ outcome = Return(results)
    /\ ResultIds = {FileIdAt(2)}

\* the contents of the segments of a transcript that have content
SegmentContents(data) ==
    IF ~IsList(data) THEN <<>>
    ELSE LET HasContent(seg) == Get(seg, "content", <<>>) # <<>>
             kept == SelectSeq(data.items, HasContent)
         IN  [i \in 1..Len(kept) |-> kept[i].fields.content]

\* q occurs case-insensitively in t
OccursCI(t, q) ==
    \E i \in 0..Len(lower(t)) : OccursAt(lower(t), lower(q), i)

\* C9 as stated (violated by the code): a candidate is returned iff its
\* processing did not fail and the query occurs case-insensitively in its
\* display name or in the concatenation of the contents of its transcript
\* segments.
C9_Original ==
    op = "search_transcripts" =>
        \A i \in 1..idx :
            FileIdAt(i) \in ResultIds <=>
                /\ ~ProcessingFailed(i)
                /\ \/ OccursCI(TitleOf(files[i]), query)
                   \/ OccursCI(Join(SegmentContents(fetched[i].value), <<>>), query)

\* C9 (amended): a candidate is returned iff its processing did not fail and
\* the query occurs case-insensitively in its display name or in the contents
\* of its transcript segments joined by newline characters; a file whose name
\* matches is returned even when it has no transcript, with an empty excerpt;
\* a file matching in neither place is never returned.
C9_MatchInNameOrJoinedText ==
    op = "search_transcripts" =>
        \A i \in 1..idx :
            /\ FileIdAt(i) \in ResultIds <=>
                  /\ ~ProcessingFailed(i)
                  /\ \/ OccursCI(TitleOf(files[i]), query)
                     \/ OccursCI(Join(SegmentContents(fetched[i].value), <<"\n">>),
                                 query)
            /\ (/\ ~ProcessingFailed(i)
                /\ OccursCI(TitleOf(files[i]), query)
                /\ SegmentContents(fetched[i].value) = <<>>) =>
                  \E e \in ResultEntries :
                      /\ e.fields.file_id = FileIdAt(i)
                      /\ e.fields.excerpt = <<>>

\* C9's cases happen: a file matched by its name alone, without a transcript,
\* is returned; a file whose segments "a" and "b" hold the query "ab" only
\* across their boundary is not
C9_Witness ==
    /\ op = "search_transcripts"
    /\ pc = "done"
    /\ query = <<"a", "b">>
    /\ Len(fetched) = 2
    /\ fetched[1] = Return(NoContent("client.get_transcript", FileIdAt(1)))
    /\ TitleOf(files[2]) = <<"x">>
    /\ ~ProcessingFailed(2)
    /\ Len(SegmentContents(fetched[2].value)) = 2
    /\ ResultIds = {FileIdAt(1)}

\* the position in the candidate list of the file of a result entry
PositionOf(entry) == entry.fields.file_id[2]

\* C10: the results are an order-preserving subsequence of the candidates:
\* every entry belongs to a processed candidate, the entries' positions in the
\* candidate list increase strictly (at most one entry per candidate, in the
\* original order), and the list is returned only after every candidate has
\* been processed, with no fetch in flight.
C10_OrderPreservingSubsequence ==
    op = "search_transcripts" =>
        /\ \A k \in 1..Len(results) : PositionOf(results[k]) \in 1..idx
        /\ \A k \in 1..(Len(results) - 1) :
              PositionOf(results[k]) < PositionOf(results[k + 1])
        /\ (pc = "done" /\ IsReturn(outcome)) =>
              /\ idx = Len(files)
              /\ Len(fetched) = Len(files)
              /\ inflight = 0
              /\ outcome.value = results

\* C10's case happens: two candidates, both returned
C10_Witness ==
    /\ op = "search_transcripts"
    /\ pc = "done"
    /\ Len(files) = 2
    /\ Len(results) = 2
    /\ outcome = Return(results)

(***************************************************************************)
(* C11: search_transcripts over listings longer than five files, checked   *)
(* under SpecFetches                                                       *)
(***************************************************************************)

MaxCandidates == 7

\* the listings of n files, n up to MaxCandidates
CandidateLists ==
    {[i \in 1..n |-> Dict([id |-> FileIdAt(i), filename |-> <<"x">>,
                           duration |-> 61000])] : n \in 0..MaxCandidates}

InitFetches ==
    /\ ClientIdle
    /\ CallIdle
    /\ ContentIdle
    /\ files \in CandidateLists
    /\ idx = 0
    /\ fetched = <<>>
    /\ results = <<>>
    /\ inflight = 0
    /\ query = <<"a", "b">>
    /\ text = <<>>
    /\ excerpt = NotCalled
    /\ RecentIdle

SpecFetches == InitFetches /\ [][NextSearch]_vars

\* the candidates processed so far whose processing did not fail
NotFailed == {i \in 1..Len(fetched) : ~ProcessingFailed(i)}

\* C11: at every point of a search_transcripts call, for any number of
\* candidate files, at most 5 fetches of a file's transcript are in flight, and
\* the number of matches collected (and returned) is at most the number of
\* candidates whose processing did not fail.
C11_FetchesInFlightBounded ==
    /\ inflight \in 0..5
    /\ op = "search_transcripts" =>
          /\ Len(results) <= Cardinality(NotFailed)
          /\ (pc = "done" /\ IsReturn(outcome)) =>
                Len(outcome.value) <= Cardinality(NotFailed)

\* C11's case happens: more candidates than the cap, three of the first five
\* failed and the other two matched, and the fetch for the sixth is in flight
C11_Witness ==
    /\ op = "search_transcripts"
    /\ pc = "fetching"
    /\ Len(files) > 5
    /\ idx = 5
    /\ Cardinality(NotFailed) = 2
    /\ Len(results) = 2
    /\ inflight = 1

(***************************************************************************)
(* plaud_client.py: get_files, get_recent_files                            *)
(***************************************************************************)

SecondsPerDay == 24 * 60 * 60
MsPerDay == SecondsPerDay * 1000

\* int(x) for x a whole number of ticks: the milliseconds in x, rounded
\* towards zero
IntMs(x) == IF x >= 0 THEN x \div TicksPerMs ELSE -((-x) \div TicksPerMs)

\* line 367: int((time.time() - days * 24 * 60 * 60) * 1000), at the time t
CutoffMs(t, d) == IntMs(t - d * SecondsPerDay * TicksPerSecond)

\* get_files, after _request: response.get("data_file_list", [])
GetFilesResult(o) ==
    IF ~IsReturn(o) THEN o
    ELSE IF ~IsDict(o.value) THEN Raise("AttributeError")
    ELSE Return(Get(o.value, "data_file_list", <<>>))

\* the test of line 369 with > in place of >=
IsRecentStrictly(f, cutoff) == Get(f, "start_time", 0) > cutoff

\* the test of line 369: f.get("start_time", 0) >= cutoff_ms
IsRecent(f, cutoff) == Get(f, "start_time", 0) >= cutoff

\* line 369: the list comprehension
RecentOf(fs, cutoff) ==
    LET Test(f) == IsRecent(f, cutoff) IN SelectSeq(fs, Test)

\* get_recent_files, after get_files returned or raised o
RecentResult(o, cutoff) ==
    IF IsReturn(o) THEN Return(RecentOf(o.value, cutoff)) ELSE o

MaxDays == 3

\* the clock when get_recent_files is called: RecentEpochDays days after the
\* epoch, and up to two milliseconds more, TicksPerMs ticks to a millisecond
RecentEpochDays == 2
RecentNows ==
    {RecentEpochDays * SecondsPerDay * TicksPerSecond + k :
        k \in 0..(2 * TicksPerMs - 1)}

\* a token that outlives every call
RecentStorage == [token |-> "t1", exp |-> (MaxDays + 1) * SecondsPerDay]

\* the start times of the listed files: the epoch, and the milliseconds
\* around the cutoff c (no recording starts before the epoch)
StartTimesNear(c) == {st \in {0, c - 1, c, c + 1} : st >= 0}

\* the i-th file of a listing: its start_time is st, or it has none
ListedFiles(i, c) ==
    {Dict([id |-> FileIdAt(i), start_time |-> st]) : st \in StartTimesNear(c)}
    \cup {Dict([id |-> FileIdAt(i)])}

Listings(c) ==
    UNION {{l \in [1..n -> UNION {ListedFiles(i, c) : i \in 1..n}] :
                \A i \in 1..n : l[i] \in ListedFiles(i, c)} : n \in 0..MaxFiles}

\* what the network answers to the request of get_files
ListingResponses(c) ==
    [kind : {"ok"}, body : {Dict([data_file_list |-> l]) : l \in Listings(c)}]
    \cup [kind : {"ok"}, body : {NotJson, Dict([data_file_total |-> 0]), List(<<>>)}]
    \cup [kind : {"status"}, status_code : {500}, text : {""}]
    \cup [kind : {"timeout"}]

\* get_recent_files up to its await: the cutoff is computed, then get_files
\* calls _request, which authenticates and sends the request
BeginRecent(d) ==
    /\ pc = "idle"
    /\ op' = "get_recent_files"
    /\ days' = d
    /\ cutoff_ms' = CutoffMs(now, d)
    /\ resp' = NoResponse
    /\ files' = <<>>
    /\ LET a == _ensure_authenticated(access_token, token_data, storage, now)
       IN  /\ access_token' = a.token
           /\ token_data' = a.data
           /\ storage_reads' = a.reads
           /\ IF a.ok
              THEN /\ pc' = "awaiting"
                   /\ attempts' = 1
                   /\ outcome' = NoOutcome
              ELSE /\ pc' = "done"
                   /\ attempts' = 0
                   /\ outcome' = NoTokenError
    /\ UNCHANGED <<storage, now, idx, fetched, results, inflight>>
    /\ UNCHANGED <<contentVars, excerptVars>>

\* the response arrives: _request and get_files return or raise, and the
\* files returned are filtered
ReceiveListing ==
    /\ op = "get_recent_files"
    /\ pc = "awaiting"
    /\ \E r \in ListingResponses(cutoff_ms) :
          LET o == GetFilesResult(RequestResult(r))
          IN  /\ resp' = r
              /\ files' = IF IsReturn(o) THEN o.value ELSE <<>>
              /\ outcome' = RecentResult(o, cutoff_ms)
    /\ pc' = "done"
    /\ UNCHANGED <<op, attempts, storage_reads, idx, fetched, results, inflight>>
    /\ UNCHANGED <<clientVars, contentVars, excerptVars, recentVars>>

\* the caller has observed the outcome
FinishRecent ==
    /\ op = "get_recent_files"
    /\ pc = "done"
    /\ op' = "idle"
    /\ pc' = "idle"
    /\ attempts' = 0
    /\ storage_reads' = 0
    /\ resp' = NoResponse
    /\ outcome' = NoOutcome
    /\ files' = <<>>
    /\ days' = 0
    /\ cutoff_ms' = 0
    /\ UNCHANGED <<idx, fetched, results, inflight>>
    /\ UNCHANGED <<clientVars, contentVars, excerptVars>>

InitRecent ==
    /\ access_token = None
    /\ token_data = NoneRec
    /\ storage \in {NoneRec, RecentStorage}
    /\ now \in RecentNows
    /\ CallIdle
    /\ ContentIdle
    /\ SearchIdle
    /\ ExcerptIdle
    /\ RecentIdle

NextRecent ==
    \/ \E d \in 0..MaxDays : BeginRecent(d)
    \/ ReceiveListing
    \/ FinishRecent

SpecRecent == InitRecent /\ [][NextRecent]_vars

(***************************************************************************)
(* C7, checked under SpecRecent                                            *)
(***************************************************************************)

\* the lower bound of the window, in milliseconds: the current time, read in
\* whole milliseconds, minus days * 86,400,000 ms
LowerBound == (now \div TicksPerMs) - days * 86400000

KeptFiles == {outcome.value[k] : k \in 1..Len(outcome.value)}

\* C7: get_recent_files(days) keeps exactly the listed files whose start_time
\* is greater than or equal to the lower bound (the current time in whole
\* milliseconds minus days * 86,400,000 ms): a file at the bound is kept, a
\* file one millisecond below it is not, a file with no start_time is not kept
\* for any positive bound, and the kept files are in the order of the listing.
C7_KeepsFilesFromLowerBound ==
    (op = "get_recent_files" /\ pc = "done" /\ IsReturn(outcome)) =>
        /\ \A i \in 1..Len(files) :
              IF HasKey(files[i], "start_time")
              THEN files[i] \in KeptFiles <=>
                      files[i].fields.start_time >= LowerBound
              ELSE LowerBound > 0 => files[i] \notin KeptFiles
        /\ \A k \in 1..Len(outcome.value) :
              /\ outcome.value[k].fields.id[2] \in 1..Len(files)
              /\ outcome.value[k] = files[outcome.value[k].fields.id[2]]
        /\ \A k \in 1..(Len(outcome.value) - 1) :
              outcome.value[k].fields.id[2] < outcome.value[k + 1].fields.id[2]

\* C7's case happens: of a file one millisecond below a positive lower bound
\* and a file at the bound, listed in this order, the second alone is kept
C7_Witness ==
    /\ op = "get_recent_files"
    /\ pc = "done"
    /\ LowerBound > 0
    /\ Len(files) = 2
    /\ Get(files[1], "start_time", 0) = LowerBound - 1
    /\ Get(files[2], "start_time", 0) = LowerBound
    /\ outcome = Return(<<files[2]>>)

(***************************************************************************)
(* The texts and queries _extract_excerpt is applied to: a run of filler   *)
(* characters, an optional occurrence of the query (in either case), a     *)
(* second run of filler and an optional second occurrence.  The run        *)
(* lengths lie around 0 and around the context width.                      *)
(***************************************************************************)

PadSlack == 1

PadLens ==
    (0..PadSlack) \cup
    {n \in (ContextChars - PadSlack)..(ContextChars + PadSlack) : n >= 0}

ExcerptQueries == {<<>>, <<"w", "o">>, <<"W", "o">>}
Occurrences == {<<>>, <<"w", "o">>, <<"W", "O">>}
LeadFillers == {"x", "Idot"}

ExcerptTexts ==
    {Fill(p, f) \o m1 \o Fill(s, "x") \o m2 :
        p \in PadLens, f \in LeadFillers, m1 \in Occurrences,
        s \in PadLens, m2 \in {<<>>, <<"w", "o">>}}

InitExcerpt ==
    /\ ClientIdle
    /\ CallIdle
    /\ ContentIdle
    /\ SearchIdle
    /\ text \in ExcerptTexts
    /\ query \in ExcerptQueries
    /\ excerpt = NotCalled
    /\ RecentIdle

ExtractExcerpt ==
    /\ excerpt = NotCalled
    /\ excerpt' = _extract_excerpt(text, query, ContextChars)
    /\ UNCHANGED <<text, query, clientVars, callVars, contentVars, searchVars,
                   recentVars>>

NextExcerpt == ExtractExcerpt

SpecExcerpt == InitExcerpt /\ [][NextExcerpt]_vars

(***************************************************************************)
(* C8                                                                      *)
(***************************************************************************)

\* the query occurs case-insensitively in t at the 0-based index p, where it
\* covers m characters of t
CIOccursAt(t, q, p, m) ==
    /\ p + m <= Len(t)
    /\ lower(Slice(t, p, p + m)) = lower(q)

CIPlaces(t, q) ==
    {pm \in (0..Len(t)) \X (0..Len(lower(q))) : CIOccursAt(t, q, pm[1], pm[2])}

\* the first case-insensitive occurrence of q in t: <<index, length>>
FirstCIPlace(t, q) ==
    CHOOSE pm \in CIPlaces(t, q) :
        \A other \in CIPlaces(t, q) :
            \/ pm[1] < other[1]
            \/ pm[1] = other[1] /\ pm[2] <= other[2]

Marker(present) == IF present THEN Ellipsis ELSE <<>>

\* e is a window of t that contains the occurrence <<p, m>> with at most c
\* characters of t before it and at most c after it, with the ellipsis marker
\* in front exactly when the window does not start at the beginning of t and
\* at the end exactly when it does not reach the end of t
IsWindowAround(e, t, p, m, c) ==
    \E start \in Max(0, p - c)..p, trail \in BOOLEAN :
        LET lead == start > 0
            end == Len(e) - Len(Marker(lead)) - Len(Marker(trail)) + start
        IN  /\ p + m <= end
            /\ end <= Len(t)
            /\ end - (p + m) <= c
            /\ trail = (end < Len(t))
            /\ e = Marker(lead) \o Slice(t, start, end) \o Marker(trail)

\* C8 (stated as the claim states it; the code violates it): for every text and
\* query, with context 200: when the query occurs case-insensitively in the
\* text, the excerpt is a window of the text holding the first occurrence with
\* at most 200 characters before it and at most 200 after it, and carries the
\* marker "..." in front iff the window does not start at the beginning of the
\* text and at the end iff it does not reach the end of the text; when the
\* query does not occur, the excerpt begins with the leading slice of the text
\* (its first 400 characters); for the empty text the excerpt is empty.
C8_ExcerptAroundFirstOccurrence ==
    excerpt # NotCalled =>
        IF text = <<>> THEN excerpt = <<>>
        ELSE IF CIPlaces(text, query) # {}
        THEN LET pm == FirstCIPlace(text, query)
             IN  IsWindowAround(excerpt, text, pm[1], pm[2], ContextChars)
        ELSE Slice(excerpt, 0, 2 * ContextChars) = Slice(text, 0, 2 * ContextChars)

\* the same statement on the texts whose lowercase form has the length of the
\* text (no character U+0130)
ExcerptOnLengthPreservingTexts ==
    Len(lower(text)) = Len(text) => C8_ExcerptAroundFirstOccurrence

====
